---- MODULE Spec2Model ----
(***************************************************************************)
(* LinUCB fusion engine of the phishing-detector extension (linucb.js) and *)
(* the popup code that drives it (popup.js).                               *)
(*                                                                         *)
(* Numbers.  The source computes in IEEE doubles, which round every        *)
(* operation to 53 bits.  The model computes on the grid of multiples of   *)
(* 1/SCALE and rounds every multiplication, division and square root to    *)
(* the nearest grid point; additions and subtractions are exact.  A grid   *)
(* value v stands for the number v/SCALE.                                  *)
(* A JavaScript value that may be null, undefined, NaN or -Infinity is a   *)
(* record [kind, val]; vectors and matrices that the code keeps finite     *)
(* (context, A, b) are tuples of grid values.                              *)
(***************************************************************************)
EXTENDS Integers, Sequences, FiniteSets, TLC

\* ------------------------------------------------------------------ bounds
MaxTrials == 2
MaxPageTrials == 1
\* feedback taken over one storage area, all engine instances together
MaxStoreTrials == 2
\* feedback clicks in one popup
MaxClicks == 2
\* tabs.onUpdated events delivered to the background worker
MaxLoads == 2
\* update calls on one engine, any action and context
MaxTrain == 2
\* successive update calls with one action, one context and one reward
Repeats == 50

\* -------------------------------------------------------------- arithmetic
SCALE == 1000

Abs(x) == IF x < 0 THEN -x ELSE x

\* n / d rounded to the nearest integer (half up), d # 0
Round(n, d) ==
    IF d < 0 THEN (2 * (-n) + (-d)) \div (2 * (-d))
             ELSE (2 * n + d) \div (2 * d)

Mul(x, y) == Round(x * y, SCALE)

Div(x, y) == Round(x * SCALE, y)

RECURSIVE ISqrtBetween(_, _, _)
\* the largest r in lo..hi with r*r <= n (bisection), given lo*lo <= n
ISqrtBetween(n, lo, hi) ==
    IF lo >= hi THEN lo
    ELSE LET mid == (lo + hi + 1) \div 2
         IN  IF mid * mid <= n THEN ISqrtBetween(n, mid, hi)
                               ELSE ISqrtBetween(n, lo, mid - 1)

\* Math.sqrt on the grid, for x >= 0: nearest grid point to sqrt(x/SCALE)
SqrtGrid(x) ==
    LET n == x * SCALE
        r == ISqrtBetween(n, 0, 40000)
    IN  IF n - r * r > r THEN r + 1 ELSE r

\* ------------------------------------------------------- JavaScript values
Num(v)       == [kind |-> "num", val |-> v]
Null         == [kind |-> "null", val |-> 0]
Undefined    == [kind |-> "undefined", val |-> 0]
NaNValue     == [kind |-> "nan", val |-> 0]
NegInfinity  == [kind |-> "neg_inf", val |-> 0]

\* Math.sqrt of a grid value: NaN below zero
MathSqrt(x) == IF x < 0 THEN NaNValue ELSE Num(SqrtGrid(x))

\* isNaN(x): ToNumber(null) is 0, ToNumber(undefined) is NaN
isNaN(x) == x.kind \in {"nan", "undefined"}

\* x + alpha * y where y may be NaN
AddScaled(x, alpha_, y) ==
    IF y.kind = "nan" THEN NaNValue ELSE Num(x + Mul(alpha_, y.val))

\* x > y on numbers that may be NaN or -Infinity
GreaterThan(x, y) ==
    IF x.kind = "nan" \/ y.kind = "nan" THEN FALSE
    ELSE IF x.kind = "neg_inf" THEN FALSE
    ELSE IF y.kind = "neg_inf" THEN TRUE
    ELSE x.val > y.val

\* ------------------------------------------------------------ configuration
n_actions  == 5
n_features == 4
ActionIds  == 0 .. (n_actions - 1)

\* the weight triples of the constructor, on the grid
InitialActions ==
    [a \in ActionIds |->
        CASE a = 0 -> <<600, 200, 200>>
          [] a = 1 -> <<200, 600, 200>>
          [] a = 2 -> <<200, 200, 600>>
          [] a = 3 -> <<500, 300, 200>>
          [] a = 4 -> <<333, 333, 333>>]

HeavyWeight == 500

NeutralScore == 500

\* ------------------------------------------------------------ linear algebra
RECURSIVE Vec(_, _)
\* the array <<f[1], ..., f[n]>>, each element computed once
Vec(n, f) == IF n = 0 THEN <<>> ELSE Append(Vec(n - 1, f), f[n])

RECURSIVE SumOver(_, _, _)
\* f[lo] + ... + f[hi], accumulated left to right
SumOver(f, lo, hi) == IF lo > hi THEN 0 ELSE SumOver(f, lo, hi - 1) + f[hi]

createIdentityMatrix(n) ==
    Vec(n, [i \in 1 .. n |->
               Vec(n, [j \in 1 .. n |-> IF i = j THEN SCALE ELSE 0])])

ZeroVector(n) == Vec(n, [i \in 1 .. n |-> 0])

matVecMul(matrix, vector) ==
    Vec(Len(matrix), [i \in 1 .. Len(matrix) |->
        SumOver([j \in 1 .. Len(vector) |-> Mul(matrix[i][j], vector[j])],
                1, Len(vector))])

dotProduct(v1, v2) ==
    SumOver([i \in 1 .. Len(v1) |-> Mul(v1[i], v2[i])], 1, Len(v1))

\* the outer product keeping the squares on the diagonal only
outerProductDiagonal(vector) ==
    LET n == Len(vector)
    IN  Vec(n, [i \in 1 .. n |->
                  Vec(n, [j \in 1 .. n |->
                            IF i = j THEN Mul(vector[i], vector[j]) ELSE 0])])

outerProduct(vector) ==
    LET n == Len(vector)
    IN  Vec(n, [i \in 1 .. n |->
                  Vec(n, [j \in 1 .. n |-> Mul(vector[i], vector[j])])])

matAdd(M1, M2) ==
    Vec(Len(M1), [i \in 1 .. Len(M1) |->
        Vec(Len(M1[i]), [j \in 1 .. Len(M1[i]) |-> M1[i][j] + M2[i][j]])])

\* [A | I]
Augment(matrix) ==
    LET n == Len(matrix)
    IN  Vec(n, [i \in 1 .. n |->
            Vec(2 * n, [j \in 1 .. 2 * n |->
                IF j <= n THEN matrix[i][j]
                ELSE IF j - n = i THEN SCALE ELSE 0])])

RECURSIVE FindPivotRow(_, _, _, _)
\* the pivot search of column i: rows k..n against the best row so far
FindPivotRow(aug, i, k, maxRow) ==
    IF k > Len(aug) THEN maxRow
    ELSE IF Abs(aug[k][i]) > Abs(aug[maxRow][i])
         THEN FindPivotRow(aug, i, k + 1, k)
         ELSE FindPivotRow(aug, i, k + 1, maxRow)

SwapRows(aug, i, m) ==
    Vec(Len(aug), [r \in 1 .. Len(aug) |->
        IF r = i THEN aug[m] ELSE IF r = m THEN aug[i] ELSE aug[r]])

\* a pivot of magnitude below 1e-10; on the grid that is the value 0
NearSingular(pivot) == Abs(pivot) < 1

RECURSIVE GaussJordan(_, _)
\* columns i..n of the elimination; <<>> when a pivot is near zero
GaussJordan(aug, i) ==
    IF i > Len(aug) THEN aug
    ELSE LET n        == Len(aug)
             swapped  == SwapRows(aug, i, FindPivotRow(aug, i, i + 1, i))
             pivot    == swapped[i][i]
             pivotRow == Vec(2 * n, [j \in 1 .. 2 * n |->
                                        Div(swapped[i][j], pivot)])
             cleared  == Vec(n, [k \in 1 .. n |->
                            IF k = i THEN pivotRow
                            ELSE Vec(2 * n, [j \in 1 .. 2 * n |->
                                    swapped[k][j]
                                      - Mul(swapped[k][i], pivotRow[j])])])
         IN  IF NearSingular(pivot) THEN <<>>
             ELSE GaussJordan(cleared, i + 1)

\* matInverse falling back to the zero matrix
matInverseZeroFallback(matrix) ==
    LET n       == Len(matrix)
        reduced == GaussJordan(Augment(matrix), 1)
    IN  IF reduced = <<>>
        THEN Vec(n, [i \in 1 .. n |-> Vec(n, [j \in 1 .. n |-> 0])])
        ELSE Vec(n, [i \in 1 .. n |->
                        Vec(n, [j \in 1 .. n |-> reduced[i][n + j]])])

matInverse(matrix) ==
    LET n       == Len(matrix)
        reduced == GaussJordan(Augment(matrix), 1)
    IN  IF reduced = <<>> THEN createIdentityMatrix(n)
        ELSE Vec(n, [i \in 1 .. n |->
                        Vec(n, [j \in 1 .. n |-> reduced[i][n + j]])])

\* matInverse eliminating in the rows of its argument instead of copies:
\* the argument is left holding the reduced left block
matInverseInPlace(matrix) ==
    IF GaussJordan(Augment(matrix), 1) = <<>> THEN matrix
    ELSE createIdentityMatrix(Len(matrix))

\* the matrix passed to matInverse as the call leaves it: the augmented rows
\* are copies ([...matrix[i]]), so the argument is untouched
matInverseArgument(matrix) == matrix

\* ------------------------------------------------------- exact arithmetic
\* The same elimination on exact fractions, for the quantities whose changes
\* are below the step of the grid. A double carries 15 significant digits,
\* so its rounding is far below the differences compared here.
RECURSIVE Gcd(_, _)
Gcd(x, y) == IF y = 0 THEN x ELSE Gcd(y, x % y)

\* n / d in lowest terms with a positive denominator, d # 0
Fraction(n, d) ==
    LET g == Gcd(Abs(n), Abs(d))
    IN  [num |-> (IF d < 0 THEN -n ELSE n) \div g, den |-> Abs(d) \div g]

\* the number a grid value stands for
Exact(x) == Fraction(x, SCALE)

FAdd(x, y) == Fraction(x.num * y.den + y.num * x.den, x.den * y.den)
FSub(x, y) == Fraction(x.num * y.den - y.num * x.den, x.den * y.den)
FMul(x, y) == Fraction(x.num * y.num, x.den * y.den)
FDiv(x, y) == Fraction(x.num * y.den, x.den * y.num)
FAbs(x)    == [num |-> Abs(x.num), den |-> x.den]
FLess(x, y) == x.num * y.den < y.num * x.den

RECURSIVE FSumOver(_, _, _)
\* f[lo] + ... + f[hi], accumulated left to right
FSumOver(f, lo, hi) ==
    IF lo > hi THEN Fraction(0, 1)
    ELSE FAdd(FSumOver(f, lo, hi - 1), f[hi])

\* [A | I] in fractions, for a matrix of grid values
AugmentExact(matrix) ==
    LET n == Len(matrix)
    IN  Vec(n, [i \in 1 .. n |->
            Vec(2 * n, [j \in 1 .. 2 * n |->
                IF j <= n THEN Exact(matrix[i][j])
                ELSE IF j - n = i THEN Fraction(1, 1) ELSE Fraction(0, 1)])])

RECURSIVE FindPivotRowExact(_, _, _, _)
FindPivotRowExact(aug, i, k, maxRow) ==
    IF k > Len(aug) THEN maxRow
    ELSE IF FLess(FAbs(aug[maxRow][i]), FAbs(aug[k][i]))
         THEN FindPivotRowExact(aug, i, k + 1, k)
         ELSE FindPivotRowExact(aug, i, k + 1, maxRow)

\* a pivot of magnitude below 1e-10: the fractions met here have
\* denominators below 2^31, so that only 0 is that small
NearSingularExact(pivot) == pivot.num = 0

RECURSIVE GaussJordanExact(_, _)
\* columns i..n of the elimination; <<>> when a pivot is near zero
GaussJordanExact(aug, i) ==
    IF i > Len(aug) THEN aug
    ELSE LET n        == Len(aug)
             swapped  == SwapRows(aug, i, FindPivotRowExact(aug, i, i + 1, i))
             pivot    == swapped[i][i]
             pivotRow == Vec(2 * n, [j \in 1 .. 2 * n |->
                                        FDiv(swapped[i][j], pivot)])
             cleared  == Vec(n, [k \in 1 .. n |->
                            IF k = i THEN pivotRow
                            ELSE Vec(2 * n, [j \in 1 .. 2 * n |->
                                    FSub(swapped[k][j],
                                         FMul(swapped[k][i], pivotRow[j]))])])
         IN  IF NearSingularExact(pivot) THEN <<>>
             ELSE GaussJordanExact(cleared, i + 1)

\* matInverse of a matrix of grid values, in fractions
matInverseExact(matrix) ==
    LET n       == Len(matrix)
        reduced == GaussJordanExact(AugmentExact(matrix), 1)
    IN  IF reduced = <<>>
        THEN Vec(n, [i \in 1 .. n |->
                Vec(n, [j \in 1 .. n |->
                          IF i = j THEN Fraction(1, 1) ELSE Fraction(0, 1)])])
        ELSE Vec(n, [i \in 1 .. n |->
                        Vec(n, [j \in 1 .. n |-> reduced[i][n + j]])])

\* matVecMul of a matrix of fractions and a vector of grid values
matVecMulExact(matrix, vector) ==
    Vec(Len(matrix), [i \in 1 .. Len(matrix) |->
        FSumOver([j \in 1 .. Len(vector) |->
                     FMul(matrix[i][j], Exact(vector[j]))],
                 1, Len(vector))])

\* theta = A_inv * b of getStatus before it is rounded for display
thetaExact(A_a, b_a) == matVecMulExact(matInverseExact(A_a), b_a)

\* ------------------------------------------------------------------ engine
\* the presence test of getContext and predict
isPresent(s) == s.kind # "null" /\ s.kind # "undefined" /\ ~isNaN(s)

\* getContext taking the deviation over the three context slots,
\* placeholders included
getContextStdOfAll(module_scores) ==
    LET valid_mask == [i \in 1 .. 3 |-> isPresent(module_scores[i])]
        slots      == [i \in 1 .. 3 |->
                         IF valid_mask[i] THEN module_scores[i].val
                         ELSE NeutralScore]
        mean       == Round(SumOver(slots, 1, 3), 3)
        squares    == [i \in 1 .. 3 |->
                         Mul(slots[i] - mean, slots[i] - mean)]
        variance   == Round(SumOver(squares, 1, 3), 3)
    IN  IF \A i \in 1 .. 3 : ~valid_mask[i]
        THEN <<NeutralScore, NeutralScore, NeutralScore, 0>>
        ELSE <<slots[1], slots[2], slots[3], SqrtGrid(variance)>>

getContext(module_scores) ==
    LET valid_mask   == [i \in 1 .. 3 |-> isPresent(module_scores[i])]
        valid_idx    == {i \in 1 .. 3 : valid_mask[i]}
        count        == Cardinality(valid_idx)
        valueOrZero  == [i \in 1 .. 3 |->
                            IF valid_mask[i] THEN module_scores[i].val ELSE 0]
        context_scores == [i \in 1 .. 3 |->
                            IF valid_mask[i] THEN module_scores[i].val
                            ELSE NeutralScore]
        mean         == Round(SumOver(valueOrZero, 1, 3), count)
        squares      == [i \in 1 .. 3 |->
                            IF valid_mask[i]
                            THEN Mul(module_scores[i].val - mean,
                                     module_scores[i].val - mean)
                            ELSE 0]
        variance     == Round(SumOver(squares, 1, 3), count)
        disagreement == SqrtGrid(variance)
    IN  IF count = 0 THEN <<NeutralScore, NeutralScore, NeutralScore, 0>>
        ELSE <<context_scores[1], context_scores[2], context_scores[3],
               disagreement>>

\* isActionValid rejecting only weights above one half
isActionValidStrict(action_idx, module_scores, actions_) ==
    LET weights == actions_[action_idx]
    IN  ~ \E i \in 1 .. 3 :
            /\ ~isPresent(module_scores[i])
            /\ weights[i] > HeavyWeight

\* isActionValid rejecting heavy weights on the present signals
isActionValidInverted(action_idx, module_scores, actions_) ==
    LET weights == actions_[action_idx]
    IN  ~ \E i \in 1 .. 3 :
            /\ isPresent(module_scores[i])
            /\ weights[i] >= HeavyWeight

isActionValid(action_idx, module_scores, actions_) ==
    LET weights == actions_[action_idx]
    IN  ~ \E i \in 1 .. 3 :
            /\ ~isPresent(module_scores[i])
            /\ weights[i] >= HeavyWeight

\* matInverse(this.A[a]) for every action a.  selectAction and getStatus
\* call matInverse on A[a] when they reach action a; the inverse depends on
\* A[a] alone, so the model computes the five inverses once per engine state
\* and hands them to the operators that use them.
inverses(A_) ==
    LET computed == Vec(n_actions, [k \in 1 .. n_actions |->
                                       matInverse(A_[k - 1])])
    IN  [a \in ActionIds |-> computed[a + 1]]

\* the entry pushed for a valid action
validEntry(a, predicted_reward, uncertainty, alpha_) ==
    [action |-> a, predicted_reward |-> Num(predicted_reward),
     uncertainty |-> uncertainty,
     ucb |-> AddScaled(predicted_reward, alpha_, uncertainty),
     invalid |-> FALSE]

\* the diagnostics entry of one action; A_inv is matInverse(this.A[a]),
\* theta = A_inv * b[a], uncertainty = sqrt(context . (A_inv * context))
ucbEntry(a, module_scores, context, A_inv, b_a, alpha_, actions_) ==
    IF ~isActionValid(a, module_scores, actions_)
    THEN [action |-> a, predicted_reward |-> NegInfinity,
          uncertainty |-> Num(0), ucb |-> NegInfinity, invalid |-> TRUE]
    ELSE validEntry(a,
                    dotProduct(matVecMul(A_inv, b_a), context),
                    MathSqrt(dotProduct(context, matVecMul(A_inv, context))),
                    alpha_)

RECURSIVE reduceBestLastWins(_, _, _)
\* the reduce with >= in place of >: the last of several maxima wins
reduceBestLastWins(ucb_values, max, k) ==
    IF k > n_actions - 1 THEN max
    ELSE reduceBestLastWins(ucb_values,
                    IF GreaterThan(max.ucb, ucb_values[k].ucb)
                    THEN max ELSE ucb_values[k],
                    k + 1)

RECURSIVE reduceBest(_, _, _)
\* ucb_values.reduce((max, curr) => curr.ucb > max.ucb ? curr : max)
reduceBest(ucb_values, max, k) ==
    IF k > n_actions - 1 THEN max
    ELSE reduceBest(ucb_values,
                    IF GreaterThan(ucb_values[k].ucb, max.ucb)
                    THEN ucb_values[k] ELSE max,
                    k + 1)

\* the ucb_values array selectAction fills, one entry per action
ucbValues(module_scores, context, A_invs, b_, alpha_, actions_) ==
    LET entries == Vec(n_actions, [k \in 1 .. n_actions |->
                      ucbEntry(k - 1, module_scores, context,
                               A_invs[k - 1], b_[k - 1], alpha_, actions_)])
    IN  [a \in ActionIds |-> entries[a + 1]]

\* the record selectAction returns for the entries it has computed
bestOf(ucb_values, context, actions_) ==
    LET best == reduceBest(ucb_values, ucb_values[0], 1)
    IN  [action |-> best.action, weights |-> actions_[best.action],
         ucb_values |-> ucb_values, context |-> context]

selectAction(module_scores, A_invs, b_, alpha_, actions_) ==
    bestOf(ucbValues(module_scores, getContext(module_scores),
                     A_invs, b_, alpha_, actions_),
           getContext(module_scores), actions_)

\* the average over all three slots, absent signals entering as 0.5
fuseWithPlaceholders(weights, module_scores) ==
    LET terms == [i \in 1 .. 3 |->
                    IF isPresent(module_scores[i])
                    THEN Mul(weights[i], module_scores[i].val)
                    ELSE Mul(weights[i], NeutralScore)]
        final_score == SumOver(terms, 1, 3)
        weight_sum  == SumOver(weights, 1, 3)
    IN  IF weight_sum > 0 THEN Div(final_score, weight_sum)
        ELSE NeutralScore

\* the weighted average without the else branch of the normalisation
fuseNoFallback(weights, module_scores) ==
    LET terms == [i \in 1 .. 3 |->
                    IF isPresent(module_scores[i])
                    THEN Mul(weights[i], module_scores[i].val) ELSE 0]
        used  == [i \in 1 .. 3 |->
                    IF isPresent(module_scores[i]) THEN weights[i] ELSE 0]
        final_score == SumOver(terms, 1, 3)
        weight_sum  == SumOver(used, 1, 3)
    IN  IF weight_sum > 0 THEN Div(final_score, weight_sum)
        ELSE final_score

\* the weighted sum without the division by the weights used
fuseUnnormalised(weights, module_scores) ==
    LET terms == [i \in 1 .. 3 |->
                    IF isPresent(module_scores[i])
                    THEN Mul(weights[i], module_scores[i].val) ELSE 0]
    IN  IF \E i \in 1 .. 3 : isPresent(module_scores[i])
        THEN SumOver(terms, 1, 3)
        ELSE NeutralScore

\* the weighted average over the present signals, or the neutral fallback
fuse(weights, module_scores) ==
    LET terms == [i \in 1 .. 3 |->
                    IF isPresent(module_scores[i])
                    THEN Mul(weights[i], module_scores[i].val) ELSE 0]
        used  == [i \in 1 .. 3 |->
                    IF isPresent(module_scores[i]) THEN weights[i] ELSE 0]
        final_score == SumOver(terms, 1, 3)
        weight_sum  == SumOver(used, 1, 3)
    IN  IF weight_sum > 0 THEN Div(final_score, weight_sum)
        ELSE NeutralScore

\* the record predict returns for the selection it was given
scored(result, module_scores) ==
    [score |-> fuse(result.weights, module_scores),
     action |-> result.action, weights |-> result.weights,
     ucb_values |-> result.ucb_values, context |-> result.context]

predict(module_scores, A_invs, b_, alpha_, actions_) ==
    scored(selectAction(module_scores, A_invs, b_, alpha_, actions_),
           module_scores)

\* the actions whose A[a] one selectAction passes to matInverse
inverted(module_scores, actions_) ==
    {a \in ActionIds : isActionValid(a, module_scores, actions_)}

\* A after matInverse has been called on A[a] for the actions reached
inverseCallsLeave(A_, reached) ==
    [a \in ActionIds |-> IF a \in reached THEN matInverseArgument(A_[a])
                         ELSE A_[a]]

\* update with one design matrix shared by all the actions
updateEveryAction(A_, b_, trials_, action, context, reward) ==
    [A |-> [a \in ActionIds |-> matAdd(A_[a], outerProduct(context))],
     b |-> [b_ EXCEPT ![action] =
               Vec(n_features, [i \in 1 .. n_features |->
                   b_[action][i] + Mul(reward, context[i])])],
     total_trials |-> trials_ + 1]

\* update that assigns reward * context to b[action] instead of adding it
updateOverwritesB(A_, b_, trials_, action, context, reward) ==
    [A |-> [A_ EXCEPT ![action] = matAdd(A_[action], outerProduct(context))],
     b |-> [b_ EXCEPT ![action] =
               Vec(n_features, [i \in 1 .. n_features |->
                   Mul(reward, context[i])])],
     total_trials |-> trials_ + 1]

\* update without the increment of total_trials
updateNoCount(A_, b_, trials_, action, context, reward) ==
    [A |-> [A_ EXCEPT ![action] = matAdd(A_[action], outerProduct(context))],
     b |-> [b_ EXCEPT ![action] =
               Vec(n_features, [i \in 1 .. n_features |->
                   b_[action][i] + Mul(reward, context[i])])],
     total_trials |-> trials_]

\* update(action, context, reward): the new A, b and total_trials
update(A_, b_, trials_, action, context, reward) ==
    [A |-> [A_ EXCEPT ![action] = matAdd(A_[action], outerProduct(context))],
     b |-> [b_ EXCEPT ![action] =
               Vec(n_features, [i \in 1 .. n_features |->
                   b_[action][i] + Mul(reward, context[i])])],
     total_trials |-> trials_ + 1]

\* learned weights as getStatus reports them: parseFloat(t.toFixed(4))
toFixed4(t) == Round(Round(t * 10000, SCALE) * SCALE, 10000)

getStatus(A_invs, b_, trials_, alpha_, actions_) ==
    [total_trials |-> trials_, alpha |-> alpha_, actions |-> actions_,
     learned_models |->
        [a \in ActionIds |->
            LET theta == matVecMul(A_invs[a], b_[a])
            IN  [action |-> a, weights |-> actions_[a],
                 theta |-> Vec(n_features, [i \in 1 .. n_features |->
                                               toFixed4(theta[i])])]]]

\* a binary reward: 1 for PHISHING, 0 for SAFE
submitFeedbackRewardBinary(label, currentScore) ==
    IF label = 1 THEN SCALE ELSE 0

\* the reward of a feedback label for the score that was shown
\* (popup.js submitFeedback)
submitFeedbackReward(label, currentScore) ==
    IF label = 1 THEN currentScore ELSE SCALE - currentScore

\* the reward of a feedback label (linucb.js processUserFeedback)
processUserFeedbackReward(user_label, currentScore) ==
    IF user_label = 1 THEN currentScore ELSE SCALE - currentScore

\* a property that an object read from storage does not have (undefined)
Missing == <<>>

field(data, name) == IF name \in DOMAIN data THEN data[name] ELSE Missing

\* the engine a constructor call leaves: identity A, zero b, no trials
constructed(alpha_) ==
    [A |-> [a \in ActionIds |-> createIdentityMatrix(n_features)],
     b |-> [a \in ActionIds |-> ZeroVector(n_features)],
     total_trials |-> 0,
     alpha |-> alpha_]

\* what load() finds under 'linucb_model': sync first, local when sync has
\* no record
found(sync_, local_) == IF sync_ # <<>> THEN sync_ ELSE local_

\* load() that copies A, b and alpha but not total_trials
loadWithoutTrials(engine, sync_, local_, read_ok) ==
    IF read_ok /\ found(sync_, local_) # <<>>
    THEN [A |-> field(found(sync_, local_), "A"),
          b |-> field(found(sync_, local_), "b"),
          total_trials |-> engine.total_trials,
          alpha |-> field(found(sync_, local_), "alpha"),
          returned |-> TRUE]
    ELSE [A |-> engine.A, b |-> engine.b,
          total_trials |-> engine.total_trials, alpha |-> engine.alpha,
          returned |-> FALSE]

\* the engine after load() and the value load() returns; read_ok is false
\* when a storage read throws
load(engine, sync_, local_, read_ok) ==
    IF read_ok /\ found(sync_, local_) # <<>>
    THEN [A |-> field(found(sync_, local_), "A"),
          b |-> field(found(sync_, local_), "b"),
          total_trials |-> field(found(sync_, local_), "total_trials"),
          alpha |-> field(found(sync_, local_), "alpha"),
          returned |-> TRUE]
    ELSE [A |-> engine.A, b |-> engine.b,
          total_trials |-> engine.total_trials, alpha |-> engine.alpha,
          returned |-> FALSE]

\* reset() that rebuilds A and b but keeps the trial count
resetKeepsTrials(engine) ==
    [A |-> [a \in ActionIds |-> createIdentityMatrix(n_features)],
     b |-> [a \in ActionIds |-> ZeroVector(n_features)],
     total_trials |-> engine.total_trials,
     alpha |-> engine.alpha]

\* the engine after reset(): alpha and the action set are not touched
reset(engine) ==
    [A |-> [a \in ActionIds |-> createIdentityMatrix(n_features)],
     b |-> [a \in ActionIds |-> ZeroVector(n_features)],
     total_trials |-> 0,
     alpha |-> engine.alpha]

\* A and b are arrays, so that selectAction and update can index them
wellFormed(engine) == engine.A # Missing /\ engine.b # Missing

\* ------------------------------------------------------------------- state
VARIABLES
    actions,        \* linucbOptimizer.actions
    A,              \* linucbOptimizer.A
    b,              \* linucbOptimizer.b
    total_trials,   \* linucbOptimizer.total_trials
    alpha,          \* linucbOptimizer.alpha
    analysisData,   \* the popup's analysisData (score fields)
    sync_model,     \* chrome.storage.sync 'linucb_model'
    local_model,    \* chrome.storage.local 'linucb_model'
    page,           \* the signals the providers report for the open page
    op,             \* the operation that ran last
    feedback,       \* what the last feedback passed to update
    status,         \* what the last getStatus or load returned
    updates,        \* number of update calls made so far
    other,          \* a second engine instance over the same storage
    background,     \* what the last performFullAnalysis computed
    pending,        \* submitFeedback calls waiting at `await save()`
    btn_disabled,   \* btnPhishing.disabled and btnSafe.disabled
    feedbackStatus, \* feedbackStatus.textContent
    timer,          \* the 3 s timeout that re-enables the buttons is armed
    cache,          \* analysis_cache_<url> of the open page
    history,        \* the update calls made so far: action and context
    analyzedTabs,       \* background: tabId -> { url, score, timestamp }
    analysisInProgress, \* background: tabId -> true, or no entry
    running,        \* calls of the onUpdated listener waiting at an await
    now,            \* Date.now() of the background worker
    closed,         \* the tabs for which tabs.onRemoved has fired
    event,          \* the tabs.onUpdated event the last step handled
    loads,          \* number of tabs.onUpdated events so far
    analysis        \* how far the popup's startAnalysis has come

storage == <<sync_model, local_model>>
popupExt == <<pending, btn_disabled, feedbackStatus, timer, cache>>
\* the variables of the background worker's tab listeners
tabVars == <<analyzedTabs, analysisInProgress, running, now, closed, event,
             loads>>
\* the variables of the training and of the tab scenarios
apart == <<history, tabVars, analysis>>
ext == <<other, background, pending, btn_disabled, feedbackStatus, timer,
         cache, apart>>
vars == <<actions, A, b, total_trials, alpha, analysisData,
          sync_model, local_model, page, op, feedback, status, updates,
          other, background, pending, btn_disabled, feedbackStatus, timer,
          cache, history, analyzedTabs, analysisInProgress, running, now,
          closed, event, loads, analysis>>

\* selectedAction of an analysisData that no prediction has filled in
NotSet == -1

NoModel    == <<>>
NoFeedback == <<>>
NoStatus   == <<>>
NoEngine   == <<>>
NoAnalysis == <<>>
NoCache    == <<>>
NoEntry    == <<>>
NoEvent    == <<>>

\* the tabs of the window
TabIds == {1, 2}

\* the URLs the tabs load
Urls == {[scheme |-> "https", host |-> "a.example"],
         [scheme |-> "http", host |-> "b.example"],
         [scheme |-> "chrome", host |-> "newtab"]}

\* url.startsWith('http://') || url.startsWith('https://')
isHttp(url) == url.scheme \in {"http", "https"}

\* the events a tab raises: status 'complete' for each URL, and status
\* 'loading'
TabEvents ==
    {[status |-> "complete", url |-> url] : url \in Urls}
    \cup {[status |-> "loading", url |-> [scheme |-> "https",
                                          host |-> "a.example"]]}

ANALYSIS_COOLDOWN == 10000

\* the readings of Date.now(): in the cooldown of an analysis made at the
\* first one, and after it
Times == {0, ANALYSIS_COOLDOWN}

\* unifiedScore >= 0.85 opens the popup
CriticalScore == 850

PHISHING == 1
SAFE     == 0
Labels   == {SAFE, PHISHING}

AbsentValues == {Null, Undefined, NaNValue}

\* the signal values of Scenario A, one per provider
ScenarioScores == <<900, 800, 850>>

\* every presence pattern of the three signals, absent ones being null
ModuleScoreInputs ==
    {[i \in 1 .. 3 |-> IF i \in S THEN Num(ScenarioScores[i]) ELSE Null] :
        S \in SUBSET (1 .. 3)}

\* what the providers may report for one page: each signal null, undefined,
\* NaN or one of two values
PageValues == {200, 900}
PageInputs == [1 .. 3 -> AbsentValues \cup {Num(v) : v \in PageValues}]

InitEngine ==
    /\ actions = InitialActions
    /\ A = [a \in ActionIds |-> createIdentityMatrix(n_features)]
    /\ b = [a \in ActionIds |-> ZeroVector(n_features)]
    /\ total_trials = 0
    /\ alpha = SCALE

InitPopup ==
    /\ analysisData = [moduleScores |-> <<Null, Null, Null>>,
                       unifiedScore |-> 0,
                       selectedAction |-> NotSet,
                       weightsUsed |-> <<>>,
                       ucbValues |-> <<>>,
                       contextFeatures |-> <<>>]
    /\ op = "init"
    /\ feedback = NoFeedback
    /\ status = NoStatus
    /\ updates = 0

\* no second instance, no background analysis, no click under way
InitExt ==
    /\ other = NoEngine
    /\ background = NoAnalysis
    /\ pending = <<>>
    /\ btn_disabled = FALSE
    /\ feedbackStatus = ""
    /\ timer = FALSE
    /\ cache = NoCache
    /\ history = <<>>
    /\ analyzedTabs = [t \in TabIds |-> NoEntry]
    /\ analysisInProgress = [t \in TabIds |-> FALSE]
    /\ running = {}
    /\ now = 0
    /\ closed = {}
    /\ event = NoEvent
    /\ loads = 0
    /\ analysis = [pc |-> "running", visual |-> FALSE, offPage |-> FALSE]

\* nothing stored under 'linucb_model'
InitStorage == sync_model = NoModel /\ local_model = NoModel

Init ==
    /\ InitEngine /\ InitPopup /\ InitStorage /\ InitExt
    /\ page = <<Null, Null, Null>>

InitPage ==
    /\ InitEngine /\ InitPopup /\ InitStorage /\ InitExt
    /\ page \in PageInputs

\* a stored object that lacks A and b
MalformedRecord == [total_trials |-> 3, alpha |-> SCALE]

\* what sync storage may hold when the extension starts
StoredInputs == {NoModel, MalformedRecord}

\* the pages of the storage scenarios: every signal present, or onPage alone
StorePages ==
    {[i \in 1 .. 3 |-> IF i \in S THEN Num(ScenarioScores[i]) ELSE Null] :
        S \in {{1, 2, 3}, {1}}}

InitStore ==
    /\ InitEngine /\ InitPopup /\ InitExt
    /\ sync_model \in StoredInputs
    /\ local_model = NoModel
    /\ page \in StorePages

\* ----------------------------------------------------------------- actions
\* the five fields updateUnifiedScore copies from the prediction
storePrediction(data, result) ==
    [data EXCEPT !.unifiedScore = result.score,
                 !.selectedAction = result.action,
                 !.weightsUsed = result.weights,
                 !.ucbValues = result.ucb_values,
                 !.contextFeatures = result.context]

\* analysisData after updateUnifiedScore() on the given engine state
withPrediction(data, A_invs, b_) ==
    storePrediction(data,
                    predict(data.moduleScores, A_invs, b_, alpha, actions))

\* the record save() writes, without the b vectors
modelRecordWithoutB(A_, b_, trials_) ==
    [A |-> A_, total_trials |-> trials_, alpha |-> alpha]

\* the record save() writes (its timestamp is left out)
modelRecord(A_, b_, trials_) ==
    [A |-> A_, b |-> b_, total_trials |-> trials_, alpha |-> alpha]

\* save() that writes only when nothing is stored yet
saveKeepsFirst(data, sync_ok) ==
    /\ sync_model' = IF sync_ok /\ sync_model = NoModel THEN data
                     ELSE sync_model
    /\ local_model' = local_model

\* save(): the write to sync storage; when it throws, the catch block names
\* the block-scoped constant `data` of the try block, which throws again and
\* is caught by the inner catch, so local storage is not written
save(data, sync_ok) ==
    /\ sync_model' = IF sync_ok THEN data ELSE sync_model
    /\ local_model' = local_model

\* the analysis has filled in moduleScores; updateUnifiedScore()
UpdateUnifiedScore(scores, A_invs) ==
    /\ analysisData' =
          withPrediction([analysisData EXCEPT !.moduleScores = scores],
                         A_invs, b)
    /\ A' = inverseCallsLeave(A, inverted(scores, actions))
    /\ op' = "updateUnifiedScore"
    /\ feedback' = NoFeedback
    /\ status' = NoStatus
    /\ UNCHANGED <<actions, b, total_trials, alpha, storage, page, updates>>

\* a click on one of the two feedback buttons
SubmitFeedback(label, sync_ok, A_invs) ==
    LET scores  == analysisData.moduleScores
        missing == analysisData.contextFeatures = <<>>
    IN  \E checked \in {IF missing
                        THEN withPrediction(analysisData, A_invs, b)
                        ELSE analysisData} :
        \E A0 \in {IF missing
                   THEN inverseCallsLeave(A, inverted(scores, actions))
                   ELSE A} :
        \E currentScore \in {checked.unifiedScore} :
        \E reward \in {submitFeedbackReward(label, currentScore)} :
        \E next \in {update(A0, b, total_trials, checked.selectedAction,
                            checked.contextFeatures, reward)} :
        \E new_invs \in {[A_invs EXCEPT ![checked.selectedAction] =
                              matInverse(next.A[checked.selectedAction])]} :
            /\ save(modelRecord(next.A, next.b, next.total_trials), sync_ok)
            /\ analysisData' = withPrediction(checked, new_invs, next.b)
            /\ A' = inverseCallsLeave(next.A, inverted(scores, actions))
            /\ b' = next.b
            /\ total_trials' = next.total_trials
            /\ feedback' = [label |-> label, score |-> currentScore,
                            reward |-> reward,
                            action |-> checked.selectedAction,
                            context |-> checked.contextFeatures,
                            by |-> "submitFeedback",
                            recomputed |-> missing,
                            data |-> modelRecord(next.A, next.b,
                                                 next.total_trials),
                            landed |-> sync_ok]
            /\ op' = "submitFeedback"
            /\ status' = NoStatus
            /\ updates' = updates + 1
            /\ UNCHANGED <<actions, alpha, page>>

\* linucbOptimizer.processUserFeedback(module_scores, user_label)
ProcessUserFeedback(module_scores, user_label, sync_ok, A_invs) ==
    \E prediction_result \in
            {predict(module_scores, A_invs, b, alpha, actions)} :
    \E A0 \in {inverseCallsLeave(A, inverted(module_scores, actions))} :
    \E currentScore \in {prediction_result.score} :
    \E reward \in {processUserFeedbackReward(user_label, currentScore)} :
    \E next \in {update(A0, b, total_trials, prediction_result.action,
                        prediction_result.context, reward)} :
        /\ save(modelRecord(next.A, next.b, next.total_trials), sync_ok)
        /\ A' = next.A
        /\ b' = next.b
        /\ total_trials' = next.total_trials
        /\ feedback' = [label |-> user_label, score |-> currentScore,
                        reward |-> reward,
                        action |-> prediction_result.action,
                        context |-> prediction_result.context,
                        by |-> "processUserFeedback",
                        recomputed |-> TRUE,
                        data |-> modelRecord(next.A, next.b,
                                             next.total_trials),
                        landed |-> sync_ok]
        /\ op' = "processUserFeedback"
        /\ status' = NoStatus
        /\ updates' = updates + 1
        /\ UNCHANGED <<actions, alpha, analysisData, page>>

\* linucbOptimizer.getStatus()
GetStatus(A_invs) ==
    /\ status' = getStatus(A_invs, b, total_trials, alpha, actions)
    /\ A' = inverseCallsLeave(A, ActionIds)
    /\ op' = "getStatus"
    /\ feedback' = NoFeedback
    /\ UNCHANGED <<actions, b, total_trials, alpha, analysisData, storage,
                   page, updates>>

\* the popup's engine as one record
engine == [A |-> A, b |-> b, total_trials |-> total_trials, alpha |-> alpha]

\* Fresh: identity matrices, zero vectors, no trials
isFresh(e) ==
    /\ e.A = [a \in ActionIds |-> createIdentityMatrix(n_features)]
    /\ e.b = [a \in ActionIds |-> ZeroVector(n_features)]
    /\ e.total_trials = 0

\* linucbOptimizer.load()
Load(read_ok) ==
    \E loaded \in {load(engine, sync_model, local_model, read_ok)} :
        /\ A' = loaded.A
        /\ b' = loaded.b
        /\ total_trials' = loaded.total_trials
        /\ alpha' = loaded.alpha
        /\ status' = [returned |-> loaded.returned,
                      record |-> IF read_ok
                                 THEN found(sync_model, local_model)
                                 ELSE NoModel,
                      read_ok |-> read_ok,
                      startup |-> isFresh(engine) /\ alpha = SCALE]
        /\ op' = "load"
        /\ feedback' = NoFeedback
        /\ UNCHANGED <<actions, analysisData, storage, page, updates, ext>>

\* linucbOptimizer.reset()
Reset ==
    \E fresh \in {reset(engine)} :
        /\ A' = fresh.A
        /\ b' = fresh.b
        /\ total_trials' = fresh.total_trials
        /\ alpha' = fresh.alpha
        /\ op' = "reset"
        /\ feedback' = NoFeedback
        /\ status' = NoStatus
        /\ UNCHANGED <<actions, analysisData, storage, page, updates, ext>>

\* a prediction or an update on an engine whose A and b are undefined:
\* this.A[a] throws a TypeError and nothing is changed
EngineThrows ==
    /\ ~wellFormed(engine)
    /\ op' = "TypeError"
    /\ feedback' = NoFeedback
    /\ status' = NoStatus
    /\ UNCHANGED <<actions, A, b, total_trials, alpha, analysisData, storage,
                   page, updates, ext>>

\* a second instance is constructed and loaded (popup.js DOMContentLoaded
\* in another window or on another device sharing the sync area)
OtherOpen(read_ok) ==
    /\ other = NoEngine
    /\ other' = load(constructed(SCALE), sync_model, local_model, read_ok)
    /\ op' = "otherLoad"
    /\ feedback' = NoFeedback
    /\ status' = NoStatus
    /\ UNCHANGED <<actions, A, b, total_trials, alpha, analysisData, storage,
                   page, updates, background, popupExt, apart>>

\* the second instance predicts, takes a feedback label, updates and saves
OtherFeedback(module_scores, user_label, sync_ok) ==
    /\ other # NoEngine
    /\ wellFormed(other)
    /\ updates < MaxStoreTrials
    /\ \E prediction_result \in
              {predict(module_scores, inverses(other.A), other.b, other.alpha,
                       actions)} :
       \E reward \in {processUserFeedbackReward(user_label,
                                                prediction_result.score)} :
       \E next \in {update(other.A, other.b, other.total_trials,
                           prediction_result.action,
                           prediction_result.context, reward)} :
       \E data \in {[A |-> next.A, b |-> next.b,
                      total_trials |-> next.total_trials,
                      alpha |-> other.alpha]} :
           /\ save(data, sync_ok)
           /\ other' = [other EXCEPT !.A = next.A, !.b = next.b,
                                     !.total_trials = next.total_trials]
           /\ feedback' = [label |-> user_label,
                           score |-> prediction_result.score,
                           reward |-> reward,
                           action |-> prediction_result.action,
                           context |-> prediction_result.context,
                           by |-> "other",
                           recomputed |-> TRUE,
                           data |-> data,
                           landed |-> sync_ok]
           /\ op' = "otherFeedback"
           /\ status' = NoStatus
           /\ updates' = updates + 1
           /\ UNCHANGED <<actions, A, b, total_trials, alpha, analysisData,
                          page, background, popupExt, apart>>

\* mlResult.confidence || 0
confidenceOrZero(s) == IF isPresent(s) /\ s.val # 0 THEN s ELSE Num(0)

\* score !== null ? score : 0
nullAsZero(s) == IF s # Null THEN s ELSE Num(0)

\* the scores array performFullAnalysis hands to predict
backgroundScores(moduleScores) ==
    <<moduleScores[1], nullAsZero(moduleScores[2]),
      nullAsZero(moduleScores[3])>>

\* the analysisData record performFullAnalysis caches
analysed(moduleScores, scores, result) ==
    [error |-> FALSE,
     moduleScores |-> moduleScores,
     scores |-> scores,
     unifiedScore |-> result.score,
     selectedAction |-> result.action,
     weightsUsed |-> result.weights,
     ucbValues |-> result.ucb_values,
     contextFeatures |-> result.context]

\* performFullAnalysis(tabId, url) of the background worker, the providers
\* reporting the signals of the page
PerformFullAnalysis(read_ok) ==
    \E copy \in {load(constructed(SCALE), sync_model, local_model, read_ok)} :
    \E moduleScores \in {<<confidenceOrZero(page[1]), page[2], page[3]>>} :
        /\ IF wellFormed(copy)
           THEN background' =
                   analysed(moduleScores, backgroundScores(moduleScores),
                            predict(backgroundScores(moduleScores),
                                    inverses(copy.A), copy.b, copy.alpha,
                                    actions))
           ELSE background' = [error |-> TRUE]
        /\ cache' = IF wellFormed(copy) THEN background' ELSE cache
        /\ op' = "performFullAnalysis"
        /\ feedback' = NoFeedback
        /\ status' = NoStatus
        /\ UNCHANGED <<actions, A, b, total_trials, alpha, analysisData,
                       storage, page, updates, other, pending, btn_disabled,
                       feedbackStatus, timer, history, analysis>>

\* the end of startAnalysis: the unified score, then the write of the
\* analysis cache, which may fail
AnalysisCompletes(local_ok, A_invs) ==
    /\ UpdateUnifiedScore(page, A_invs)
    /\ cache' = IF local_ok THEN analysisData' ELSE cache
    /\ UNCHANGED <<other, background, pending, btn_disabled, feedbackStatus,
                   timer, apart>>

\* a click reaches submitFeedback whatever the state of the buttons
canClickAlways(disabled) == TRUE

\* a disabled button dispatches no click
canClick(disabled) == ~disabled

\* submitFeedback(label) from the click to `await save()`: the buttons are
\* disabled, the context is regenerated if missing, the engine is updated
\* and save() has called chrome.storage.sync.set
Click(label, A_invs) ==
    /\ canClick(btn_disabled)
    /\ LET scores  == analysisData.moduleScores
           missing == analysisData.contextFeatures = <<>>
       IN  \E checked \in {IF missing
                           THEN withPrediction(analysisData, A_invs, b)
                           ELSE analysisData} :
           \E currentScore \in {checked.unifiedScore} :
           \E reward \in {submitFeedbackReward(label, currentScore)} :
           \E next \in {update(A, b, total_trials, checked.selectedAction,
                               checked.contextFeatures, reward)} :
           \E data \in {modelRecord(next.A, next.b, next.total_trials)} :
               /\ btn_disabled' = TRUE
               /\ analysisData' = checked
               /\ A' = next.A
               /\ b' = next.b
               /\ total_trials' = next.total_trials
               /\ pending' = Append(pending, [label |-> label,
                                              scores |-> scores,
                                              data |-> data])
               /\ feedback' = [label |-> label, score |-> currentScore,
                               reward |-> reward,
                               action |-> checked.selectedAction,
                               context |-> checked.contextFeatures,
                               by |-> "submitFeedback",
                               recomputed |-> missing,
                               data |-> data,
                               landed |-> FALSE,
                               local_ok |-> FALSE]
               /\ op' = "click"
               /\ status' = NoStatus
               /\ updates' = updates + 1
               /\ UNCHANGED <<actions, alpha, storage, page, other,
                              background, feedbackStatus, timer, cache,
                              apart>>

\* submitFeedback from the end of save() to its return: the write to sync
\* storage has landed or failed, the score is predicted again, the cached
\* analysis is rewritten if there is one, and the status line is set
SaveSettles(sync_ok, local_ok, A_invs) ==
    /\ pending # <<>>
    /\ \E call \in {Head(pending)} :
       \E shown \in {storePrediction(analysisData,
                                      predict(call.scores, A_invs, b, alpha,
                                              actions))} :
           /\ save(call.data, sync_ok)
           /\ analysisData' = shown
           /\ pending' = Tail(pending)
           /\ IF cache # NoCache /\ ~local_ok
              THEN /\ feedbackStatus' = "Update failed"
                   /\ btn_disabled' = FALSE
                   /\ timer' = timer
                   /\ cache' = cache
              ELSE /\ feedbackStatus' = "Model updated"
                   /\ btn_disabled' = btn_disabled
                   /\ timer' = TRUE
                   /\ cache' = IF cache # NoCache THEN shown ELSE cache
           /\ feedback' = [label |-> call.label,
                           by |-> "submitFeedback",
                           data |-> call.data,
                           landed |-> sync_ok,
                           local_ok |-> local_ok]
           /\ op' = "saveSettled"
           /\ status' = NoStatus
           /\ UNCHANGED <<actions, A, b, total_trials, alpha, page, updates,
                          other, background, apart>>

\* the timeout set 3 s after an acknowledged feedback
TimerFires ==
    /\ timer
    /\ timer' = FALSE
    /\ btn_disabled' = FALSE
    /\ feedbackStatus' = ""
    /\ op' = "timer"
    /\ UNCHANGED <<actions, A, b, total_trials, alpha, analysisData, storage,
                   page, feedback, status, updates, other, background,
                   pending, cache, apart>>

\* the popup over many pages: analyses and feedback clicks
Next ==
    /\ \E A_invs \in {inverses(A)} :
        \/ \E scores \in ModuleScoreInputs : UpdateUnifiedScore(scores, A_invs)
        \/ /\ total_trials < MaxTrials
           /\ \E label \in Labels : SubmitFeedback(label, TRUE, A_invs)
    /\ UNCHANGED ext

Spec == Init /\ [][Next]_vars

\* one page: its analysis, feedback through the popup or through
\* processUserFeedback, and status queries
NextPage ==
    /\ \E A_invs \in {inverses(A)} :
        \/ UpdateUnifiedScore(page, A_invs)
        \/ /\ total_trials < MaxPageTrials
           /\ \E label \in Labels : SubmitFeedback(label, TRUE, A_invs)
        \/ /\ total_trials < MaxPageTrials
           /\ \E user_label \in Labels :
                 ProcessUserFeedback(page, user_label, TRUE, A_invs)
        \/ GetStatus(A_invs)
    /\ UNCHANGED ext

SpecPage == InitPage /\ [][NextPage]_vars

\* the engine over its storage: load, reset and feedback through
\* processUserFeedback, the storage holding nothing or a malformed record
\* at the start and its writes failing or not
NextStore ==
    /\ \/ \E read_ok \in BOOLEAN : Load(read_ok)
       \/ Reset
       \/ EngineThrows
       \/ /\ wellFormed(engine)
          /\ updates < MaxStoreTrials
          /\ \E A_invs \in {inverses(A)} :
             \E user_label \in Labels, sync_ok \in BOOLEAN :
                ProcessUserFeedback(page, user_label, sync_ok, A_invs)
          /\ UNCHANGED ext
    /\ UNCHANGED <<analysisData>>

SpecStore == InitStore /\ [][NextStore]_vars

InitShared ==
    /\ InitEngine /\ InitPopup /\ InitStorage /\ InitExt
    /\ page \in StorePages

\* two instances over one sync area, each predicting, updating and saving
NextShared ==
    \/ /\ updates < MaxStoreTrials
       /\ \E A_invs \in {inverses(A)} :
          \E user_label \in Labels, sync_ok \in BOOLEAN :
             ProcessUserFeedback(page, user_label, sync_ok, A_invs)
       /\ UNCHANGED ext
    \/ \E read_ok \in BOOLEAN : OtherOpen(read_ok)
    \/ \E user_label \in Labels, sync_ok \in BOOLEAN :
          OtherFeedback(page, user_label, sync_ok)

SpecShared == InitShared /\ [][NextShared]_vars

\* what the providers report to the background worker: each signal
\* unavailable or one of two values
BackgroundPages == [1 .. 3 -> {Null} \cup {Num(v) : v \in PageValues}]

InitBackground ==
    /\ InitEngine /\ InitPopup /\ InitStorage /\ InitExt
    /\ page \in BackgroundPages

\* one page analysed by the background worker and by the popup, with
\* feedback in the popup
NextBackground ==
    \/ /\ \E read_ok \in BOOLEAN : PerformFullAnalysis(read_ok)
       /\ UNCHANGED tabVars
    \/ /\ \E A_invs \in {inverses(A)} :
             \/ UpdateUnifiedScore(page, A_invs)
             \/ /\ total_trials < MaxPageTrials
                /\ \E label \in Labels : SubmitFeedback(label, TRUE, A_invs)
       /\ UNCHANGED ext

SpecBackground == InitBackground /\ [][NextBackground]_vars

InitFeedback ==
    /\ InitEngine /\ InitPopup /\ InitStorage /\ InitExt
    /\ page \in StorePages

\* one popup on one page, submitFeedback split at `await save()`, the
\* storage writes failing or not
NextFeedback ==
    \/ \E A_invs \in {inverses(A)} :
          \/ \E local_ok \in BOOLEAN : AnalysisCompletes(local_ok, A_invs)
          \/ /\ updates < MaxClicks
             /\ \E label \in Labels : Click(label, A_invs)
          \/ \E sync_ok \in BOOLEAN, local_ok \in BOOLEAN :
                SaveSettles(sync_ok, local_ok, A_invs)
    \/ TimerFires

SpecFeedback == InitFeedback /\ [][NextFeedback]_vars

\* performFullAnalysis(tabId, url) when the scoring service answers with an
\* error status: { error: 'API Error' }, nothing cached
AnalysisFails ==
    /\ background' = [error |-> TRUE]
    /\ op' = "performFullAnalysis"
    /\ feedback' = NoFeedback
    /\ status' = NoStatus
    /\ UNCHANGED <<actions, A, b, total_trials, alpha, analysisData, storage,
                   page, updates, other, popupExt, history, analysis>>

\* the test of the listener for an analysis of the tab under way, which
\* always answers no
alreadyInProgressNever(flags, tabId) == FALSE

\* analysisInProgress.get(tabId)
alreadyInProgress(flags, tabId) == flags[tabId]

\* existing && existing.url === url
\*          && Date.now() - existing.timestamp < ANALYSIS_COOLDOWN
inCooldown(existing, url, time) ==
    /\ existing # NoEntry
    /\ existing.url = url
    /\ time - existing.timestamp < ANALYSIS_COOLDOWN

\* what the listener does with an event before its first await
outcomeOf(tabId, status_, url) ==
    IF status_ # "complete" THEN "ignored"
    ELSE IF ~isHttp(url) THEN "ignored"
    ELSE IF alreadyInProgress(analysisInProgress, tabId) THEN "skipped"
    ELSE IF inCooldown(analyzedTabs[tabId], url, now) THEN "cooldown"
    ELSE "started"

\* chrome.tabs.onUpdated fires: the listener up to
\* `await performFullAnalysis(tabId, url)`
OnUpdated(tabId, status_, url) ==
    /\ tabId \notin closed
    /\ loads < MaxLoads
    /\ \E outcome \in {outcomeOf(tabId, status_, url)} :
          /\ event' = [tabId |-> tabId, url |-> url, status |-> status_,
                       outcome |-> outcome]
          /\ IF outcome = "started"
             THEN /\ analysisInProgress' =
                        [analysisInProgress EXCEPT ![tabId] = TRUE]
                  /\ running' = running \cup
                        {[id |-> loads + 1, tabId |-> tabId, url |-> url,
                          at |-> "performFullAnalysis", score |-> 0]}
             ELSE UNCHANGED <<analysisInProgress, running>>
    /\ loads' = loads + 1
    /\ op' = "onUpdated"
    /\ feedback' = NoFeedback
    /\ status' = NoStatus
    /\ UNCHANGED <<actions, A, b, total_trials, alpha, analysisData, storage,
                   page, updates, other, background, popupExt, history, analysis,
                   analyzedTabs, now, closed>>

\* performFullAnalysis returns to the listener, which leaves through
\* `return` and `finally` on an error and otherwise records the score and
\* goes on to `await updateIcon(tabId, unifiedScore)`
AnalysisReturns(call, api_ok, read_ok) ==
    /\ call.at = "performFullAnalysis"
    /\ IF api_ok THEN PerformFullAnalysis(read_ok) ELSE AnalysisFails /\ cache' = cache
    /\ IF background'.error
       THEN /\ running' = running \ {call}
            /\ analysisInProgress' =
                  [analysisInProgress EXCEPT ![call.tabId] = FALSE]
            /\ event' = NoEvent
            /\ UNCHANGED analyzedTabs
       ELSE /\ analyzedTabs' =
                  [analyzedTabs EXCEPT ![call.tabId] =
                      [url |-> call.url, score |-> background'.unifiedScore,
                       timestamp |-> now]]
            /\ running' = (running \ {call}) \cup
                  {[call EXCEPT !.at = "updateIcon",
                                !.score = background'.unifiedScore]}
            /\ event' = NoEvent
            /\ UNCHANGED analysisInProgress
    /\ UNCHANGED <<now, closed, loads>>

\* updateIcon has ended; chrome.action.openPopup() for a critical score,
\* which may throw into the catch block; `finally` clears the flag
IconDone(call, thrown) ==
    /\ call.at = "updateIcon"
    /\ thrown => call.score >= CriticalScore
    /\ running' = running \ {call}
    /\ analysisInProgress' = [analysisInProgress EXCEPT ![call.tabId] = FALSE]
    /\ event' = NoEvent
    /\ op' = IF thrown THEN "openPopup throws" ELSE "updateIcon"
    /\ feedback' = NoFeedback
    /\ status' = NoStatus
    /\ UNCHANGED <<actions, A, b, total_trials, alpha, analysisData, storage,
                   page, updates, other, background, popupExt, history, analysis,
                   analyzedTabs, now, closed, loads>>

\* chrome.tabs.onRemoved fires
OnRemoved(tabId) ==
    /\ tabId \notin closed
    /\ closed' = closed \cup {tabId}
    /\ analyzedTabs' = [analyzedTabs EXCEPT ![tabId] = NoEntry]
    /\ analysisInProgress' = [analysisInProgress EXCEPT ![tabId] = FALSE]
    /\ event' = NoEvent
    /\ op' = "onRemoved"
    /\ feedback' = NoFeedback
    /\ status' = NoStatus
    /\ UNCHANGED <<actions, A, b, total_trials, alpha, analysisData, storage,
                   page, updates, other, background, popupExt, history, analysis,
                   running, now, loads>>

\* time passes
Tick ==
    /\ now' \in {t \in Times : t > now}
    /\ UNCHANGED <<actions, A, b, total_trials, alpha, analysisData, storage,
                   page, op, feedback, status, updates, other, background,
                   popupExt, history, analysis, analyzedTabs, analysisInProgress,
                   running, closed, event, loads>>

\* the pages of the tab scenarios: a critical score, a low score
TabPages == {<<Num(900), Num(800), Num(850)>>, <<Num(200), Null, Null>>}

InitTabs ==
    /\ InitEngine /\ InitPopup /\ InitStorage /\ InitExt
    /\ page \in TabPages

\* the listener's calls that wait at an await go on
Resume ==
    \E call \in running :
        \/ \E api_ok \in BOOLEAN : AnalysisReturns(call, api_ok, TRUE)
        \/ \E thrown \in BOOLEAN : IconDone(call, thrown)

\* the background worker: tab events, the listener's calls resuming, time
NextTabs ==
    \/ \E tabId \in TabIds, e \in TabEvents :
          OnUpdated(tabId, e.status, e.url)
    \/ Resume
    \/ \E tabId \in TabIds : OnRemoved(tabId)
    \/ Tick

SpecTabs == InitTabs /\ [][NextTabs]_vars

\* every call that waits at an await resumes in the end
SpecTabsFair == SpecTabs /\ WF_vars(Resume)

\* the callback of the visual analysis runs (popup.js startAnalysis)
VisualArrives ==
    /\ ~analysis.visual
    /\ analysis' = [analysis EXCEPT !.visual = TRUE]
    /\ analysisData' = [analysisData EXCEPT !.moduleScores[2] = page[2]]
    /\ op' = "visual"
    /\ UNCHANGED <<actions, A, b, total_trials, alpha, storage, page,
                   feedback, status, updates, other, background, popupExt,
                   history, tabVars>>

\* analyzeOffpage has its result
OffpageArrives ==
    /\ ~analysis.offPage
    /\ analysis' = [analysis EXCEPT !.offPage = TRUE]
    /\ analysisData' = [analysisData EXCEPT !.moduleScores[3] = page[3]]
    /\ op' = "offPage"
    /\ UNCHANGED <<actions, A, b, total_trials, alpha, storage, page,
                   feedback, status, updates, other, background, popupExt,
                   history, tabVars>>

\* startAnalysis after `await visualPromise`: the onPage score, the unified
\* score and the write of the cache
AnalysisEnds(local_ok, A_invs) ==
    /\ analysis = [pc |-> "running", visual |-> TRUE, offPage |-> TRUE]
    /\ analysis' = [analysis EXCEPT !.pc = "done"]
    /\ UpdateUnifiedScore(page, A_invs)
    /\ cache' = IF local_ok THEN analysisData' ELSE cache
    /\ UNCHANGED <<other, background, pending, btn_disabled, feedbackStatus,
                   timer, history, tabVars>>

\* the scoring service does not answer: startAnalysis ends in its catch
\* block, without a score
ApiFails ==
    /\ analysis.pc = "running"
    /\ analysis' = [analysis EXCEPT !.pc = "failed"]
    /\ op' = "showError"
    /\ UNCHANGED <<actions, A, b, total_trials, alpha, analysisData, storage,
                   page, feedback, status, updates, other, background,
                   popupExt, history, tabVars>>

\* one popup from its opening: startAnalysis split at its awaits, and
\* submitFeedback split at `await save()`
NextStart ==
    \/ VisualArrives
    \/ OffpageArrives
    \/ ApiFails
    \/ \E A_invs \in {inverses(A)} :
          \/ \E local_ok \in BOOLEAN : AnalysisEnds(local_ok, A_invs)
          \/ /\ updates < MaxClicks
             /\ \E label \in Labels : Click(label, A_invs)
          \/ \E sync_ok \in BOOLEAN, local_ok \in BOOLEAN :
                SaveSettles(sync_ok, local_ok, A_invs)
    \/ TimerFires

SpecStart == InitFeedback /\ [][NextStart]_vars

\* the contexts of the training scenarios: every signal present, onPage
\* alone
TrainContexts == {getContext(scores) : scores \in StorePages}

\* the rewards of the training scenarios
TrainRewards == {380, SCALE}

\* linucbOptimizer.update(action, context, reward)
Update(action, context, reward) ==
    \E next \in {update(A, b, total_trials, action, context, reward)} :
        /\ A' = next.A
        /\ b' = next.b
        /\ total_trials' = next.total_trials
        /\ history' = Append(history, [action |-> action,
                                       context |-> context])
        /\ feedback' = [action |-> action, context |-> context,
                        reward |-> reward, by |-> "update"]
        /\ op' = "update"
        /\ status' = NoStatus
        /\ updates' = updates + 1
        /\ UNCHANGED <<actions, alpha, analysisData, storage, page, other,
                       background, popupExt, tabVars, analysis>>

\* any sequence of update calls on a Fresh engine
NextTrain ==
    /\ updates < MaxTrain
    /\ \E action \in ActionIds, context \in TrainContexts,
          reward \in TrainRewards : Update(action, context, reward)

SpecTrain == Init /\ [][NextTrain]_vars

\* the context and the rewards of the repeated update
RepeatContext == <<SCALE, 0, 0, SCALE>>
RepeatRewards == {100, 380, SCALE}

\* update(0, [1, 0, 0, 1], r) again and again, r fixed by the first call
NextRepeat ==
    /\ updates < Repeats
    /\ \E reward \in RepeatRewards :
          /\ feedback # NoFeedback => reward = feedback.reward
          /\ Update(0, RepeatContext, reward)

SpecRepeat == Init /\ [][NextRepeat]_vars

\* the n x n matrix with entry f[i][j] * SCALE
GridMatrix(f) ==
    Vec(n_features, [i \in 1 .. n_features |->
        Vec(n_features, [j \in 1 .. n_features |-> f[i][j] * SCALE])])

\* matrices handed to matInverse: the zero matrix, the matrix of ones (rank
\* 1), diag(1, 1, 1, 0), the identity with its first two rows exchanged,
\* twice the identity, and the identity plus a matrix of ones
InverseInputs ==
    {GridMatrix([i \in 1 .. 4 |-> [j \in 1 .. 4 |-> 0]]),
     GridMatrix([i \in 1 .. 4 |-> [j \in 1 .. 4 |-> 1]]),
     GridMatrix([i \in 1 .. 4 |-> [j \in 1 .. 4 |->
                    IF i = j /\ i < 4 THEN 1 ELSE 0]]),
     GridMatrix([i \in 1 .. 4 |-> [j \in 1 .. 4 |->
                    IF {i, j} = {1, 2} \/ (i = j /\ i > 2) THEN 1 ELSE 0]]),
     GridMatrix([i \in 1 .. 4 |-> [j \in 1 .. 4 |->
                    IF i = j THEN 2 ELSE 0]]),
     GridMatrix([i \in 1 .. 4 |-> [j \in 1 .. 4 |->
                    IF i = j THEN 2 ELSE 1]])}

\* the b vectors that go with them
InverseVectors == {ZeroVector(n_features), <<500, 0, 0, 500>>}

\* an engine one of whose matrices is any of the inputs
InitInverse ==
    /\ InitPopup /\ InitStorage /\ InitExt
    /\ actions = InitialActions
    /\ total_trials = 0
    /\ alpha = SCALE
    /\ page \in StorePages
    /\ \E a \in ActionIds, M \in InverseInputs, v \in InverseVectors :
          /\ A = [o \in ActionIds |->
                    IF o = a THEN M ELSE createIdentityMatrix(n_features)]
          /\ b = [o \in ActionIds |->
                    IF o = a THEN v ELSE ZeroVector(n_features)]

\* the callers of matInverse: selectAction through updateUnifiedScore, and
\* getStatus
NextInverse ==
    /\ \E A_invs \in {inverses(A)} :
          \/ UpdateUnifiedScore(page, A_invs)
          \/ GetStatus(A_invs)
    /\ UNCHANGED ext

SpecInverse == InitInverse /\ [][NextInverse]_vars

\* ------------------------------------------------------------------ claims
RECURSIVE SumSet(_, _)
\* the sum of f[i] over the indices i in S
SumSet(S, f) ==
    IF S = {} THEN 0
    ELSE LET i == CHOOSE x \in S : TRUE IN f[i] + SumSet(S \ {i}, f)

\* the signals of a score triple that carry an observation
PresentIn(scores) == {i \in 1 .. 3 : scores[i].kind = "num"}

\* analysisData holds the result of a predict call
Predicted == analysisData.contextFeatures # <<>>

\* analysisData holds the result of predict on the engine state as it is now
PredictedNow == Predicted /\ op \in {"updateUnifiedScore", "submitFeedback"}

\* the score triples that differ from scores only in what stands for an
\* absent signal
StandIns(scores) ==
    {t \in [1 .. 3 -> AbsentValues \cup {scores[i] : i \in 1 .. 3}] :
        \A i \in 1 .. 3 : IF scores[i].kind = "num" THEN t[i] = scores[i]
                          ELSE t[i] \in AbsentValues}

\* C1: predict returns the average of the present signals weighted by the
\* selected action's weights and renormalised by the weights of the present
\* signals, and returns the same score whichever of null, undefined and NaN
\* stands for an absent signal.
C1_WeightedAverage ==
    LET scores == analysisData.moduleScores
        S      == PresentIn(scores)
        w      == actions[analysisData.selectedAction]
    IN  /\ (Predicted /\ S # {}) =>
              /\ analysisData.weightsUsed = w
              /\ analysisData.unifiedScore =
                    Div(SumSet(S, [i \in 1 .. 3 |-> Mul(w[i], scores[i].val)]),
                        SumSet(S, w))
        /\ PredictedNow =>
              \E A_invs \in {inverses(A)} :
                 \A t \in StandIns(scores) :
                    predict(t, A_invs, b, alpha, actions).score
                       = analysisData.unifiedScore

\* a trained engine has scored a page whose onPage signal is NaN, whose
\* visual signal is undefined and whose offPage signal is 0.9
C1_Witness ==
    /\ op = "updateUnifiedScore"
    /\ total_trials = 1
    /\ analysisData.moduleScores = <<NaNValue, Undefined, Num(900)>>
    /\ analysisData.unifiedScore = 900

\* C2: an action that puts a weight of at least 0.5 on an absent signal is
\* never the selected one, and the selected action's diagnostics entry is
\* marked valid.
C2_NoHeavyWeightOnAbsent ==
    Predicted =>
        LET scores == analysisData.moduleScores
            sel    == analysisData.selectedAction
        IN  /\ \A i \in 1 .. 3 :
                  scores[i].kind # "num" => actions[sel][i] < HeavyWeight
            /\ scores[1].kind # "num" => sel \notin {0, 3}
            /\ analysisData.ucbValues[sel].invalid = FALSE

\* after two updates, a page without the onPage signal is scored with the
\* balanced action while actions 0 and 3 are marked invalid
C2_Witness ==
    /\ total_trials = 2
    /\ analysisData.moduleScores[1] = Null
    /\ analysisData.moduleScores[2].kind = "num"
    /\ analysisData.selectedAction = 4
    /\ analysisData.ucbValues[0].invalid
    /\ analysisData.ucbValues[3].invalid

\* C3: an update adds the outer product of the context to A[action], adds
\* reward times context to b[action] and adds one to total_trials; A and b
\* of the other actions, the action set and alpha stay as they were.
C3_UpdateEffect ==
    [][updates' # updates =>
         LET a   == feedback'.action
             ctx == feedback'.context
             r   == feedback'.reward
         IN  /\ \A i, j \in 1 .. n_features :
                   A'[a][i][j] = A[a][i][j] + Mul(ctx[i], ctx[j])
             /\ \A i \in 1 .. n_features :
                   b'[a][i] = b[a][i] + Mul(r, ctx[i])
             /\ total_trials' = total_trials + 1
             /\ \A o \in ActionIds \ {a} : A'[o] = A[o] /\ b'[o] = b[o]
             /\ actions' = actions
             /\ alpha' = alpha]_vars

\* the second update went to action 1 with a positive reward while action 0
\* keeps what the first update gave it
C3_Witness ==
    /\ op = "submitFeedback"
    /\ total_trials = 2
    /\ feedback.action = 1
    /\ feedback.reward > 0
    /\ A[0] # createIdentityMatrix(n_features)
    /\ b[1] # ZeroVector(n_features)

\* C4: total_trials equals the number of update calls made since the engine
\* was constructed.
C4_TrialsCountUpdates == total_trials = updates

\* two updates have been made, with a prediction after them
C4_Witness == updates = 2 /\ op = "updateUnifiedScore"

\* C5: the reward is the shown score for the label PHISHING and one minus the
\* shown score for the label SAFE, in submitFeedback and in
\* processUserFeedback alike, so the rewards of the two labels sum to one.
C5_Reward ==
    feedback # NoFeedback =>
        LET s == feedback.score
        IN  /\ feedback.label = PHISHING => feedback.reward = s
            /\ feedback.label = SAFE => feedback.reward = SCALE - s
            /\ submitFeedbackReward(PHISHING, s) = s
            /\ submitFeedbackReward(SAFE, s) = SCALE - s
            /\ processUserFeedbackReward(PHISHING, s) = s
            /\ processUserFeedbackReward(SAFE, s) = SCALE - s
            /\ submitFeedbackReward(PHISHING, s)
                  + submitFeedbackReward(SAFE, s) = SCALE
            /\ processUserFeedbackReward(PHISHING, s)
                  + processUserFeedbackReward(SAFE, s) = SCALE

\* the popup has taken a SAFE click on a page it showed with a score strictly
\* between 0 and 1
C5_Witness ==
    /\ feedback # NoFeedback
    /\ feedback.by = "submitFeedback"
    /\ feedback.label = SAFE
    /\ feedback.score = 620
    /\ feedback.reward = 380

C7_ArgMaxLowestIndex ==
    Predicted =>
        LET u   == analysisData.ucbValues
            sel == analysisData.selectedAction
        IN  /\ \A a \in ActionIds : ~GreaterThan(u[a].ucb, u[sel].ucb)
            /\ \A a \in ActionIds : a < sel => GreaterThan(u[sel].ucb, u[a].ucb)
            /\ (total_trials = 0 /\ PresentIn(analysisData.moduleScores) = 1 .. 3)
                  => /\ \A a \in ActionIds :
                           ~u[a].invalid /\ u[a].ucb = u[0].ucb
                     /\ sel = 0

\* after two updates actions 3 and 4 are both valid and share the largest
\* UCB, and action 3 is the one selected
C7_Witness ==
    /\ Predicted
    /\ total_trials = 2
    /\ analysisData.selectedAction = 3
    /\ ~analysisData.ucbValues[4].invalid
    /\ analysisData.ucbValues[4].ucb = analysisData.ucbValues[3].ucb

\* C8: the context has four slots; each of the first three holds the signal's
\* value when the signal is present and 0.5 when it is absent; the fourth is 0
\* when exactly one signal is present; with no signal present the context is
\* [0.5, 0.5, 0.5, 0].
C8_Context ==
    Predicted =>
        LET scores == analysisData.moduleScores
            ctx    == analysisData.contextFeatures
            S      == PresentIn(scores)
        IN  /\ Len(ctx) = 4
            /\ \A i \in 1 .. 3 :
                  ctx[i] = IF i \in S THEN scores[i].val ELSE NeutralScore
            /\ Cardinality(S) = 1 => ctx[4] = 0
            /\ S = {} => ctx = <<NeutralScore, NeutralScore, NeutralScore, 0>>

\* the context of a page whose only signal is visual = 0.2, the others being
\* NaN and undefined
C8_Witness ==
    /\ analysisData.moduleScores = <<NaNValue, Num(200), Undefined>>
    /\ analysisData.contextFeatures = <<500, 200, 500, 0>>

\* the valid actions of the prediction held in analysisData
ValidActions == {a \in ActionIds : ~analysisData.ucbValues[a].invalid}

\* only the onPage signal is present
OnlyOnPage ==
    /\ Predicted
    /\ PresentIn(analysisData.moduleScores) = {1}

\* C9 as stated: with only onPage present the valid actions are exactly
\* Visual-heavy (1), OffPage-heavy (2) and Balanced (4).
C9_AsStated == OnlyOnPage => ValidActions = {1, 2, 4}

\* C9 as amended: with only onPage present the valid actions are exactly
\* ML-heavy (0), ML+Visual (3) and Balanced (4), the actions whose weights on
\* visual and on offPage are both below 0.5.
C9_ValidWithOnlyOnPage ==
    OnlyOnPage =>
        /\ ValidActions = {0, 3, 4}
        /\ ValidActions = {a \in ActionIds : actions[a][2] < HeavyWeight
                                           /\ actions[a][3] < HeavyWeight}

\* a page with onPage = 0.9, visual null and offPage undefined has been scored
C9_Witness ==
    /\ Predicted
    /\ analysisData.moduleScores = <<Num(900), Null, Undefined>>
    /\ analysisData.selectedAction = 0

\* C10: with no signal present the prediction has score 0.5, a selected action
\* of the action set with its weights, and the default context.
C10_NeutralFallback ==
    (Predicted /\ PresentIn(analysisData.moduleScores) = {}) =>
        /\ analysisData.unifiedScore = NeutralScore
        /\ analysisData.selectedAction \in ActionIds
        /\ analysisData.weightsUsed = actions[analysisData.selectedAction]
        /\ analysisData.contextFeatures =
              <<NeutralScore, NeutralScore, NeutralScore, 0>>

\* a twice-updated engine scores a page without any signal
C10_Witness ==
    /\ total_trials = 2
    /\ op = "updateUnifiedScore"
    /\ PresentIn(analysisData.moduleScores) = {}
    /\ analysisData.unifiedScore = NeutralScore
    /\ analysisData.selectedAction = 4

\* C11: reset() leaves every A[a] the identity matrix, every b[a] the zero
\* vector and total_trials 0, whatever state the engine was in before.
C11_ResetIsFresh == op = "reset" => isFresh(engine)

\* reset() has run on an engine that had taken feedback
C11_Witness == op = "reset" /\ updates > 0 /\ sync_model # NoModel

\* an update ran in this step
UpdateStep == op' \in {"submitFeedback", "processUserFeedback"}

\* C12 as stated: the engine leaves Fresh only through update, and
\* total_trials decreases only through reset().
C12_AsStated ==
    [][/\ (isFresh(engine) /\ ~isFresh(engine)') => UpdateStep
       /\ total_trials' < total_trials => op' = "reset"]_vars

\* C12: the engine leaves Fresh only through update or load(); an update
\* leaves it with one more trial, hence Trained; total_trials decreases only
\* through reset() or load().
C12_FreshAndTrained ==
    [][/\ (isFresh(engine) /\ ~isFresh(engine)')
            => (UpdateStep \/ op' = "load")
       /\ UpdateStep => total_trials' = total_trials + 1
       /\ total_trials' < total_trials => op' \in {"reset", "load"}]_vars

\* load() has turned a Fresh engine into a Trained one
C12_Witness ==
    /\ op = "load"
    /\ status.startup
    /\ status.returned
    /\ wellFormed(engine)
    /\ total_trials > 0

\* the stored object has the four properties load() copies
wellFormedRecord(data) ==
    {"A", "b", "total_trials", "alpha"} \subseteq DOMAIN data

\* C13 as stated: after load() at startup with the stored record absent or
\* malformed, the engine is Fresh with the constructor's alpha.
C13_AsStated ==
    (/\ op = "load"
     /\ status.startup
     /\ status.read_ok
     /\ ~wellFormedRecord(status.record))
        => (isFresh(engine) /\ alpha = SCALE)

\* C16: a save that lands replaces the stored record by the saver's
\* in-memory state; when two instances started from the same store and each
\* updated once, the stored record holds one trial, not two.
C16_LastWriteWins ==
    (feedback # NoFeedback /\ feedback.landed) =>
        LET saver == IF feedback.by = "other" THEN other ELSE engine
        IN  /\ sync_model = [A |-> saver.A, b |-> saver.b,
                             total_trials |-> saver.total_trials,
                             alpha |-> saver.alpha]
            /\ (/\ other # NoEngine
                /\ ~other.returned
                /\ total_trials = 1
                /\ other.total_trials = 1)
                   => (sync_model.total_trials = 1 /\ updates = 2)

\* both instances started from the empty store and updated once with
\* different labels; the second instance saved last and the popup engine's
\* update is not in the stored record
C16_Witness ==
    /\ feedback # NoFeedback
    /\ feedback.by = "other"
    /\ feedback.landed
    /\ ~other.returned
    /\ total_trials = 1
    /\ other.total_trials = 1
    /\ updates = 2
    /\ sync_model.total_trials = 1
    /\ sync_model.b = other.b
    /\ sync_model.b # b

\* C19 as stated: a signal whose provider returned null reaches the engine
\* as absent on the background path too.
C19_AsStated ==
    (background # NoAnalysis /\ ~background.error) =>
        \A i \in 1 .. 3 :
            background.moduleScores[i] = Null
                => ~isPresent(background.scores[i])

\* C18 as stated: the action, the context and the score that submitFeedback
\* hands to update and to the reward are the ones analysisData held from a
\* prediction made before the click; none is computed at feedback time.
C18_AsStated ==
    [][op' = "submitFeedback" =>
          /\ feedback'.action = analysisData.selectedAction
          /\ feedback'.context = analysisData.contextFeatures
          /\ feedback'.score = analysisData.unifiedScore]_vars

\* the values of the signals of the page that are present
PresentValues(scores) == {scores[i].val : i \in PresentIn(scores)}

\* v <= x for every x in S
AtMostAll(v, S) == \A x \in S : v <= x

\* v >= x for every x in S
AtLeastAll(v, S) == \A x \in S : v >= x

\* the distance, in grid steps, by which the rounding of the products and of
\* the quotient can carry a weighted average past the values averaged
RoundingSlack == 3

C14_UpdateThenSave ==
    [][/\ updates' # updates =>
            /\ pending = <<>>
            /\ Len(pending') = 1
            /\ pending'[1].data = engine'
       /\ (pending # <<>> /\ op' = "saveSettled") =>
            /\ pending[1].data = engine
            /\ engine' = engine
            /\ feedback'.landed => sync_model' = engine]_vars

\* the write that followed the second update has landed
C14_Witness ==
    /\ op = "saveSettled"
    /\ feedback.landed
    /\ total_trials = 2
    /\ sync_model = engine

\* C15 as stated: when every storage write fails, the update stays applied,
\* the score is predicted again and the feedback is acknowledged.
C15_AsStated ==
    (op = "saveSettled" /\ ~feedback.landed /\ ~feedback.local_ok) =>
        /\ total_trials = updates
        /\ analysisData.contextFeatures # <<>>
        /\ feedbackStatus = "Model updated"

C24_AsStated ==
    (Predicted /\ PresentIn(analysisData.moduleScores) = {}) =>
        /\ ValidActions = ActionIds
        /\ \A a \in ActionIds : analysisData.ucbValues[a].ucb # NegInfinity

\* C24 as amended: when all three signals are absent, the validity filter,
\* which reads the signals and not the context, rejects the four actions that
\* put a weight of at least 0.5 on some signal; Balanced (4) is the only
\* valid action and the selected one, the others have a UCB of -Infinity.
C24_OnlyBalancedValid ==
    (Predicted /\ PresentIn(analysisData.moduleScores) = {}) =>
        /\ ValidActions = {4}
        /\ analysisData.selectedAction = 4
        /\ \A a \in 0 .. 3 : analysisData.ucbValues[a].ucb = NegInfinity
        /\ analysisData.ucbValues[4].ucb.kind = "num"

\* a page whose three signals are null, undefined and NaN has been scored
C24_Witness ==
    /\ op = "updateUnifiedScore"
    /\ analysisData.moduleScores = <<Null, Undefined, NaNValue>>
    /\ analysisData.contextFeatures =
          <<NeutralScore, NeutralScore, NeutralScore, 0>>
    /\ analysisData.ucbValues[0].invalid

\* C25 as stated: when the write to sync storage fails and local storage is
\* working, save() leaves the full model record in local storage.
C25_AsStated ==
    (feedback # NoFeedback /\ ~feedback.landed) =>
        local_model = feedback.data

\* C26: an instance that runs load() after another instance's save() has
\* landed, the read succeeding, holds the A, b, total_trials and alpha the
\* saving instance had when it saved.
C26_LoadAfterSave ==
    [][(/\ op' = "otherLoad"
        /\ other'.returned
        /\ feedback # NoFeedback
        /\ feedback.landed) =>
           /\ feedback.data = engine
           /\ other'.A = feedback.data.A
           /\ other'.b = feedback.data.b
           /\ other'.total_trials = feedback.data.total_trials
           /\ other'.alpha = feedback.data.alpha]_vars

\* the second instance has loaded the record the first one saved after its
\* second update
C26_Witness ==
    /\ op = "otherLoad"
    /\ other.returned
    /\ other.total_trials = 2
    /\ other.A = A
    /\ other.b = b
    /\ other.b # [a \in ActionIds |-> ZeroVector(n_features)]

\* the update calls made to action a
UpdatesOf(a) == {k \in 1 .. Len(history) : history[k].action = a}

\* the vectors with entries -1, 0 and 1, the zero vector left out
TestVectors ==
    {x \in [1 .. n_features -> {-1, 0, 1}] :
        \E i \in 1 .. n_features : x[i] # 0}

\* x . (M * x) for a vector of integers
QuadraticForm(M, x) ==
    SumOver([i \in 1 .. n_features |->
                x[i] * SumOver([j \in 1 .. n_features |-> M[i][j] * x[j]],
                               1, n_features)],
            1, n_features)

\* C21: after any sequence of update calls on a Fresh engine, every A[a] is
\* the identity plus the sum of the outer products of the contexts of the
\* updates made to a; it is symmetric, positive on every test vector, and
\* its elimination meets no near-zero pivot.
C21_IdentityPlusOuterProducts ==
    \A a \in ActionIds :
        /\ \A i, j \in 1 .. n_features :
              /\ A[a][i][j] =
                    (IF i = j THEN SCALE ELSE 0)
                    + SumSet(UpdatesOf(a),
                             [k \in 1 .. Len(history) |->
                                 Mul(history[k].context[i],
                                     history[k].context[j])])
              /\ A[a][i][j] = A[a][j][i]
        /\ \A x \in TestVectors : QuadraticForm(A[a], x) > 0
        /\ GaussJordan(Augment(A[a]), 1) # <<>>

\* action 2 has been updated twice, with two different contexts
C21_Witness ==
    /\ Len(history) = 2
    /\ UpdatesOf(2) = {1, 2}
    /\ history[1].context # history[2].context
    /\ A[2][1][2] > 0
    /\ A[0] = createIdentityMatrix(n_features)

\* C23: in a run of update(0, [1, 0, 0, 1], r) calls with one reward r > 0 on
\* a Fresh engine, every call leaves the first component of
\* theta_0 = inverse(A[0]) * b[0] strictly larger than it was.
C23_ThetaGrows ==
    [][updates' # updates =>
          FLess(thetaExact(A[0], b[0])[1], thetaExact(A'[0], b'[0])[1])]_vars

\* the fiftieth call has been made, with r = 0.38
C23_Witness ==
    /\ updates = 50
    /\ feedback.reward = 380
    /\ A[0][1][4] = 50 * SCALE
    /\ thetaExact(A[0], b[0])[1] = Fraction(19, 101)

\* the elimination of M meets a pivot of magnitude below 1e-10
NearZeroPivot(M) == GaussJordan(Augment(M), 1) = <<>>

\* an n x n array of numbers
IsMatrix(M) ==
    /\ Len(M) = n_features
    /\ \A i \in 1 .. n_features :
          /\ Len(M[i]) = n_features
          /\ \A j \in 1 .. n_features : M[i][j] \in Int

\* C22: matInverse returns a matrix for every input, the identity when a
\* pivot is near zero, and leaves its argument as it was; selectAction then
\* gives the action a finite UCB, computed with the identity, and returns a
\* valid action.
C22_IdentityOnNearZeroPivot ==
    /\ \A a \in ActionIds :
          /\ IsMatrix(matInverse(A[a]))
          /\ matInverseArgument(A[a]) = A[a]
          /\ NearZeroPivot(A[a]) =>
                /\ matInverse(A[a]) = createIdentityMatrix(n_features)
                /\ (PredictedNow /\ a \in ValidActions) =>
                      LET entry   == analysisData.ucbValues[a]
                          context == analysisData.contextFeatures
                      IN  /\ entry.ucb.kind = "num"
                          /\ entry.predicted_reward =
                                Num(dotProduct(b[a], context))
                          /\ entry.uncertainty =
                                MathSqrt(dotProduct(context, context))
    /\ PredictedNow => analysisData.selectedAction \in ValidActions

\* a page has been scored by an engine whose A[4] is the matrix of ones,
\* and Balanced has a finite UCB above its b . context
C22_Witness ==
    /\ op = "updateUnifiedScore"
    /\ NearZeroPivot(A[4])
    /\ A[4][1][2] = SCALE
    /\ b[4] = <<500, 0, 0, 500>>
    /\ 4 \in ValidActions
    /\ analysisData.ucbValues[4].ucb.kind = "num"
    /\ analysisData.ucbValues[4].ucb.val
          > analysisData.ucbValues[4].predicted_reward.val

\* the calls of the onUpdated listener for tab t that are past its guards
CallsOf(t) == {call \in running : call.tabId = t}

\* C27: for every tab at most one call of the onUpdated listener is past the
\* guards, so at most one performFullAnalysis it started is in progress, and
\* the tab's analysisInProgress flag is set only while such a call is under
\* way: every way out of the listener has cleared it.
C27_OneAnalysisPerTab ==
    \A t \in TabIds :
        /\ Cardinality(CallsOf(t)) <= 1
        /\ analysisInProgress[t] => CallsOf(t) # {}

\* the listener has left through its catch block after a second event for
\* the tab, and no flag is set
C27_Witness ==
    /\ op = "openPopup throws"
    /\ loads = 2
    /\ running = {}
    /\ analyzedTabs[1] # NoEntry
    /\ \A t \in TabIds : ~analysisInProgress[t]

\* C28 as stated: once tabs.onRemoved has fired for a tab, analyzedTabs and
\* analysisInProgress hold no entry for it.
C28_AsStated ==
    \A t \in closed :
        /\ analyzedTabs[t] = NoEntry
        /\ ~analysisInProgress[t]

\* analyzedTabs holds a score for URL u of tab t
Recorded(t, u) == analyzedTabs[t] # NoEntry /\ analyzedTabs[t].url = u

\* an analysis of URL u of tab t is under way
Analysing(t, u) == \E call \in CallsOf(t) : call.url = u

\* the load of URL u in tab t has reached status 'complete'
LoadCompleted(t, u) ==
    /\ op = "onUpdated"
    /\ event.tabId = t
    /\ event.url = u
    /\ event.status = "complete"

\* C29 as stated: every http(s) load of a tab that reaches 'complete' is
\* analysed, at once or afterwards, or has a score recorded for its URL,
\* unless the tab is closed.
C29_AsStated ==
    \A t \in TabIds : \A u \in {url \in Urls : isHttp(url)} :
        LoadCompleted(t, u) ~> (Recorded(t, u) \/ Analysing(t, u)
                                  \/ t \in closed)

\* startAnalysis, its callbacks and every submitFeedback have ended, and
\* feedback was given
BothFinished ==
    /\ analysis.pc # "running"
    /\ analysis.visual
    /\ analysis.offPage
    /\ pending = <<>>
    /\ updates > 0

\* C30 as stated: when submitFeedback and startAnalysis have both finished,
\* the unified score, the selected action and the context of analysisData
\* are those of predict on analysisData.moduleScores.
C30_AsStated ==
    BothFinished =>
        \E A_invs \in {inverses(A)} :
        \E result \in {predict(analysisData.moduleScores, A_invs, b, alpha,
                               actions)} :
            /\ analysisData.unifiedScore = result.score
            /\ analysisData.selectedAction = result.action
            /\ analysisData.contextFeatures = result.context

====
